---- MODULE Spec2Model ----
(***************************************************************************)
(* The append-only file (AOF) of andydunstall/aof: chunk framing, Append   *)
(* and the resynchronising Lookup, as a state machine over the bytes of    *)
(* the backing file.                                                       *)
(*                                                                         *)
(* Bytes are integers 0..255.  A file offset o names the byte file[o + 1]. *)
(* A uint32 is the record [hi, lo] of its two 16-bit halves, since the     *)
(* model checker's integers are 32-bit signed.                             *)
(***************************************************************************)
EXTENDS Integers, Sequences, FiniteSets, TLC

\* ------------------------------------------------------------------ bounds

\* Append calls that pass the size check, per behaviour.
MaxAppends == 2

\* Failed writes, per behaviour.
MaxFaults == 1

\* Pieces (whole, torn or damaged chunks) of a file found at start-up.
MaxPieces == 2

\* ------------------------------------------------------- program constants

\* magicCookie = 0x24716296: halves 0x2471 and 0x6296.
magicCookie == [hi |-> 9329, lo |-> 25238]

maxChunkSize == 1024

chunkMetadataSize == 10

ErrChunkSizeLimitExceeded == "ErrChunkSizeLimitExceeded"

\* ------------------------------------------------------------ wire codec

Min(a, b) == IF a < b THEN a ELSE b

\* Bitwise exclusive or of two n-bit naturals.
RECURSIVE Xor(_, _, _)
Xor(a, b, n) ==
    IF n = 0 THEN 0
    ELSE ((a + b) % 2) + 2 * Xor(a \div 2, b \div 2, n - 1)

Xor32(x, y) == [hi |-> Xor(x.hi, y.hi, 16), lo |-> Xor(x.lo, y.lo, 16)]

Not32(x) == [hi |-> 65535 - x.hi, lo |-> 65535 - x.lo]

Shr1(x) == [hi |-> x.hi \div 2, lo |-> (x.lo \div 2) + 32768 * (x.hi % 2)]


\* k rounds of shift-and-reduce of the register c by the reflected IEEE
\* polynomial 0xEDB88320.
RECURSIVE crcRound(_, _)
crcRound(c, k) ==
    IF k = 0 THEN c
    ELSE crcRound(IF c.lo % 2 = 1
                  THEN Xor32(Shr1(c), [hi |-> 60856, lo |-> 33568])
                  ELSE Shr1(c), k - 1)

\* crc32 update of the raw register c with the bytes p[i..], first to last.
\* (c.lo < 0 never holds: the test has c evaluated before the next round.)
\* The table of the IEEE polynomial: entry i is i after 8 rounds.
ieeeTable == [i \in 0..255 |-> crcRound([hi |-> 0, lo |-> i], 8)]

Shr8(x) == [hi |-> x.hi \div 256, lo |-> (x.lo \div 256) + 256 * (x.hi % 256)]

\* The register after the bytes p[i..] (one table step per byte).
RECURSIVE crcUpdate(_, _, _)
crcUpdate(c, p, i) ==
    IF c.lo < 0 \/ i > Len(p) THEN c
    ELSE crcUpdate(Xor32(ieeeTable[Xor(c.lo % 256, p[i], 8)], Shr8(c)), p, i + 1)

\* crc32.NewIEEE(): the digest of no bytes.
NewIEEE == [hi |-> 0, lo |-> 0]

\* hash.Write(p): the digest holds the finished CRC of all bytes so far.
HashWrite(crc, p) == Not32(crcUpdate(Not32(crc), p, 1))

Sum32(crc) == crc

\* Mutant: the two bytes in little-endian order.
encodeU16LE(n) == <<n % 256, n \div 256>>

encodeU16(n) == <<n \div 256, n % 256>>

encodeU32(n) == <<n.hi \div 256, n.hi % 256, n.lo \div 256, n.lo % 256>>

\* binary.BigEndian.Uint16 / Uint32 of a full buffer.
decodeU16(buf) == buf[1] * 256 + buf[2]

decodeU32(buf) == [hi |-> buf[1] * 256 + buf[2], lo |-> buf[3] * 256 + buf[4]]

\* ------------------------------------------------------------ the handles

\* io.ReadFull(r, buf) with len(buf) = n on a file read at position pos.
ReadFull(file, pos, n) ==
    LET avail == IF pos >= Len(file) THEN 0 ELSE Len(file) - pos
        k     == Min(n, avail)
    IN  [buf |-> SubSeq(file, pos + 1, pos + k),
         n   |-> k,
         err |-> IF k = n THEN "nil"
                 ELSE IF k = 0 THEN "EOF" ELSE "ErrUnexpectedEOF"]

\* Mutant: a short read is passed on as it is.
readErrRaw(r) == r.err

\* readU8, readU16, readU32: a short read is reported as io.EOF.
readErr(r) == IF r.err = "ErrUnexpectedEOF" THEN "EOF" ELSE r.err

readU8(file, pos) ==
    LET r == ReadFull(file, pos, 1)
    IN  [val |-> IF r.err = "nil" THEN r.buf[1] ELSE 0, n |-> r.n, err |-> readErr(r)]

readU16(file, pos) ==
    LET r == ReadFull(file, pos, 2)
    IN  [val |-> IF r.err = "nil" THEN decodeU16(r.buf) ELSE 0, n |-> r.n,
         err |-> readErr(r)]

readU32(file, pos) ==
    LET r == ReadFull(file, pos, 4)
    IN  [val |-> IF r.err = "nil" THEN decodeU32(r.buf) ELSE NewIEEE, n |-> r.n,
         err |-> readErr(r)]

\* Mutant: the window is compared from index 0, wherever its oldest byte is.
isCookieFromStart(sync, sp) ==
    /\ sync[0] = 36
    /\ sync[1] = 113
    /\ sync[2] = 98
    /\ sync[3] = 150

\* sync is indexed 0..3 as in the source.
isCookie(sync, sp) ==
    /\ sync[sp % 4] = 36
    /\ sync[(sp + 1) % 4] = 113
    /\ sync[(sp + 2) % 4] = 98
    /\ sync[(sp + 3) % 4] = 150

\* ------------------------------------------------------------------ state

VARIABLES
    log,     \* the bytes of the backing file
    rpos,    \* rfile's read position
    app,     \* the frame of the Append call in progress
    lk,      \* the frame of the Lookup call in progress
    hist,    \* history: how the file was built, one record per chunk begun
    faults,  \* history: failed writes so far
    cl,      \* the handles: the Close call and what it did
    seen     \* history: a result the caller has kept from an earlier Lookup

vars == <<log, rpos, app, lk, hist, faults, cl, seen>>

AppIdle == [pc |-> "idle", b |-> <<>>, checksum |-> NewIEEE, err |-> "nil"]

NoRet == [b |-> <<>>, next |-> 0, err |-> "none"]

ZeroSync == [i \in 0..3 |-> 0]

LkIdle ==
    [pc |-> "idle", arg |-> 0, offset |-> 0, sync |-> ZeroSync, sp |-> 0,
     size |-> 0, b |-> <<>>, checksum |-> NewIEEE, ret |-> NoRet]

\* No result kept.
NoneSeen == [arg |-> 0, ret |-> NoRet, len |-> 0]

\* Both handles open, Close not called.
ClOpen == [pc |-> "open", order |-> <<>>, rerr |-> "nil", werr |-> "nil", ret |-> "none"]

Init ==
    /\ log = <<>>
    /\ rpos = 0
    /\ app = AppIdle
    /\ lk = LkIdle
    /\ hist = <<>>
    /\ faults = 0
    /\ cl = ClOpen
    /\ seen = NoneSeen

\* ----------------------------------------------------------------- Append

\* Mutant: the limit off by one.
SizeLimitOffByOne(b) == Len(b) > maxChunkSize + 1

SizeLimitExceeded(b) == Len(b) > maxChunkSize

\* The call, up to the creation of the checksum.
AppendBegin(b) ==
    /\ app.pc = "idle"
    /\ cl.pc = "open"
    /\ IF SizeLimitExceeded(b)
       THEN /\ app' = [AppIdle EXCEPT !.pc = "done", !.b = b,
                                      !.err = ErrChunkSizeLimitExceeded]
            /\ hist' = hist
       ELSE /\ Len(hist) < MaxAppends
            /\ app' = [AppIdle EXCEPT !.pc = "cookie", !.b = b]
            /\ hist' = Append(hist, [off |-> Len(log), b |-> b, st |-> "writing"])
    /\ UNCHANGED <<log, rpos, lk, faults, cl, seen>>

\* Append called while no Lookup runs.
AppendCall(b) == lk.pc = "idle" /\ AppendBegin(b)

\* The bytes each of the four writes hands to wfile, and the state after it.
AppendBytes(f) ==
    CASE f.pc = "cookie" -> encodeU32(magicCookie)
      [] f.pc = "size"   -> encodeU16(Len(f.b))
      [] f.pc = "data"   -> f.b
      [] f.pc = "sum"    -> encodeU32(Sum32(f.checksum))

\* Mutant: the length field left out of the checksum.
AppendHashedNoSize(f) ==
    CASE f.pc = "cookie" -> HashWrite(f.checksum, encodeU32(magicCookie))
      [] f.pc = "size"   -> f.checksum
      [] f.pc = "data"   -> HashWrite(f.checksum, f.b)
      [] f.pc = "sum"    -> f.checksum

AppendHashed(f) ==
    CASE f.pc = "cookie" -> HashWrite(f.checksum, encodeU32(magicCookie))
      [] f.pc = "size"   -> HashWrite(f.checksum, encodeU16(Len(f.b)))
      [] f.pc = "data"   -> HashWrite(f.checksum, f.b)
      [] f.pc = "sum"    -> f.checksum

AppendNextPc(pc) ==
    CASE pc = "cookie" -> "size"
      [] pc = "size"   -> "data"
      [] pc = "data"   -> "sum"
      [] pc = "sum"    -> "done"

SetLast(h, st) == [h EXCEPT ![Len(h)].st = st]

\* wfile.Write succeeds: the file is opened O_APPEND, the bytes go to its end.
AppendWrite ==
    /\ app.pc \in {"cookie", "size", "data", "sum"}
    /\ LET f == [app EXCEPT !.checksum = AppendHashed(app)]
       IN  /\ log' = log \o AppendBytes(f)
           /\ app' = [f EXCEPT !.pc = AppendNextPc(app.pc)]
           /\ hist' = IF app.pc = "sum" THEN SetLast(hist, "ok") ELSE hist
    /\ UNCHANGED <<rpos, lk, faults, cl, seen>>

\* Mutant: the error of a failed write is kept but the next write is made.
AppendWriteFailGoesOn ==
    /\ app.pc \in {"cookie", "size", "data", "sum"}
    /\ faults < MaxFaults
    /\ LET f == [app EXCEPT !.checksum = AppendHashed(app)]
           p == AppendBytes(f)
       IN  \E k \in 0..Len(p) :
              /\ k < Len(p) \/ k = 0
              /\ log' = log \o SubSeq(p, 1, k)
              /\ app' = [f EXCEPT !.pc = AppendNextPc(app.pc), !.err = "EIO"]
    /\ hist' = SetLast(hist, "torn")
    /\ faults' = faults + 1
    /\ UNCHANGED <<rpos, lk, cl, seen>>

\* Mutant: a failed write is rolled back by emptying the file.
AppendWriteFailTruncates ==
    /\ app.pc \in {"cookie", "size", "data", "sum"}
    /\ faults < MaxFaults
    /\ log' = <<>>
    /\ app' = [app EXCEPT !.checksum = AppendHashed(app), !.pc = "done", !.err = "EIO"]
    /\ hist' = SetLast(hist, "torn")
    /\ faults' = faults + 1
    /\ UNCHANGED <<rpos, lk, cl, seen>>

\* wfile.Write fails after putting down k bytes: Append returns the error.
AppendWriteFail ==
    /\ app.pc \in {"cookie", "size", "data", "sum"}
    /\ faults < MaxFaults
    /\ LET f == [app EXCEPT !.checksum = AppendHashed(app)]
           p == AppendBytes(f)
       IN  \E k \in 0..Len(p) :
              /\ k < Len(p) \/ k = 0
              /\ log' = log \o SubSeq(p, 1, k)
              /\ app' = [f EXCEPT !.pc = "done", !.err = "EIO"]
    /\ hist' = SetLast(hist, "torn")
    /\ faults' = faults + 1
    /\ UNCHANGED <<rpos, lk, cl, seen>>

AppendReturn ==
    /\ app.pc = "done"
    /\ app' = AppIdle
    /\ UNCHANGED <<log, rpos, lk, hist, faults, cl, seen>>

\* The bytes a complete Append(b) puts down: its four writes in order.
RECURSIVE AppendRun(_)
AppendRun(f) ==
    IF f.pc = "done" THEN <<>>
    ELSE LET g == [f EXCEPT !.checksum = AppendHashed(f)]
         IN  AppendBytes(g) \o AppendRun([g EXCEPT !.pc = AppendNextPc(f.pc)])

Chunk(b) == AppendRun([AppIdle EXCEPT !.pc = "cookie", !.b = b])

\* Inputs of Append: the empty payload, a payload equal to the cookie, and one
\* payload over the limit.
Cookie == encodeU32(magicCookie)

TooLarge == [i \in 1..(maxChunkSize + 1) |-> 0]

Payloads == {<<>>, Cookie}

\* ----------------------------------------------------------------- Lookup

\* return b, next, err: the frame's locals go with the call.
LookupRet(f, b, next, err) ==
    [LkIdle EXCEPT !.pc = "done", !.arg = f.arg,
                   !.ret = [b |-> b, next |-> next, err |-> err]]

SizeCorrupt(size) == size > maxChunkSize

\* Mutant: a mismatch is not acted on (the chunk is returned all the same).
ChecksumNeverMismatch(checksum, chunkChecksum) == FALSE

\* Mutant: only the upper half of the checksum is compared.
ChecksumMismatchHiOnly(checksum, chunkChecksum) ==
    Sum32(checksum).hi # chunkChecksum.hi

ChecksumMismatch(checksum, chunkChecksum) == Sum32(checksum) # chunkChecksum

\* Mutant: the search restarts where the failed cookie began.
RestartSame(offset) == offset

\* Mutant: the search restarts past the metadata of the failed candidate.
RestartPastMeta(offset) == offset + chunkMetadataSize

\* Mutant: the search restarts two bytes after the failed cookie.
RestartTwo(offset) == offset + 2

\* offset += 1; continue
Restart(offset) == offset + 1

\* Mutant: the 10 bytes of metadata left out of the next offset.
NextOffsetNoMeta(offset, b) == offset + Len(b)

\* Mutant: the next offset one byte too far.
NextOffsetOneMore(offset, b) == offset + chunkMetadataSize + Len(b) + 1

NextOffset(offset, b) == offset + chunkMetadataSize + Len(b)

\* Mutant: a seek past the end of the file is an error.
LookupSeekPastEndFails(f, pos, file) ==
    IF f.offset < 0 \/ f.offset > Len(file)
    THEN [lk |-> LookupRet(f, <<>>, 0, "EINVAL"), pos |-> pos]
    ELSE [lk |-> [f EXCEPT !.pc = "sync"], pos |-> f.offset]

\* Mutant: no seek, the reads go on from where rfile was left.
LookupSeekKeepsPos(f, pos, file) ==
    IF f.offset < 0
    THEN [lk |-> LookupRet(f, <<>>, 0, "EINVAL"), pos |-> pos]
    ELSE [lk |-> [f EXCEPT !.pc = "sync"], pos |-> pos]

\* rfile.Seek(offset, 0): a negative offset is an error, any other is taken.
LookupSeek(f, pos, file) ==
    IF f.offset < 0
    THEN [lk |-> LookupRet(f, <<>>, 0, "EINVAL"), pos |-> pos]
    ELSE [lk |-> [f EXCEPT !.pc = "sync"], pos |-> f.offset]

\* sync := the next 4 bytes; sp := 0.
LookupSync(f, pos, file) ==
    LET r == ReadFull(file, pos, 4)
    IN  IF r.err # "nil"
        THEN [lk |-> LookupRet(f, <<>>, 0, "EOF"), pos |-> pos + r.n]
        ELSE [lk |-> [f EXCEPT !.pc = "scan", !.sp = 0,
                               !.sync = [i \in 0..3 |-> r.buf[i + 1]]],
              pos |-> pos + r.n]

\* One pass of the inner loop: leave it on a cookie (and start the
\* checksum), or shift one more byte into sync.
LookupScan(f, pos, file) ==
    IF isCookie(f.sync, f.sp)
    THEN [lk |-> [f EXCEPT !.pc = "size",
                           !.checksum = HashWrite(NewIEEE, encodeU32(magicCookie))],
          pos |-> pos]
    ELSE LET c == readU8(file, pos)
         IN  IF c.err # "nil"
             THEN [lk |-> LookupRet(f, <<>>, 0, c.err), pos |-> pos + c.n]
             ELSE [lk |-> [f EXCEPT !.offset = f.offset + 1,
                                    !.sync[f.sp % 4] = c.val,
                                    !.sp = f.sp + 1],
                   pos |-> pos + c.n]

LookupSize(f, pos, file) ==
    LET r == readU16(file, pos)
    IN  IF r.err # "nil"
        THEN [lk |-> LookupRet(f, <<>>, 0, r.err), pos |-> pos + r.n]
        ELSE IF SizeCorrupt(r.val)
        THEN [lk |-> [f EXCEPT !.pc = "seek", !.size = r.val,
                               !.offset = Restart(f.offset)],
              pos |-> pos + r.n]
        ELSE [lk |-> [f EXCEPT !.pc = "data", !.size = r.val,
                               !.checksum = HashWrite(f.checksum, encodeU16(r.val))],
              pos |-> pos + r.n]

LookupData(f, pos, file) ==
    LET r == ReadFull(file, pos, f.size)
    IN  IF r.err # "nil"
        THEN [lk |-> LookupRet(f, <<>>, 0, "EOF"), pos |-> pos + r.n]
        ELSE [lk |-> [f EXCEPT !.pc = "sum", !.b = r.buf,
                               !.checksum = HashWrite(f.checksum, r.buf)],
              pos |-> pos + r.n]

LookupSum(f, pos, file) ==
    LET r == readU32(file, pos)
    IN  IF r.err # "nil"
        THEN [lk |-> LookupRet(f, <<>>, 0, r.err), pos |-> pos + r.n]
        ELSE IF ChecksumMismatch(f.checksum, r.val)
        THEN [lk |-> [f EXCEPT !.pc = "seek", !.offset = Restart(f.offset)],
              pos |-> pos + r.n]
        ELSE [lk |-> LookupRet(f, f.b, NextOffset(f.offset, f.b), "nil"),
              pos |-> pos + r.n]

\* One step of Lookup from frame f with rfile at pos.
LookupStep(f, pos, file) ==
    CASE f.pc = "seek" -> LookupSeek(f, pos, file)
      [] f.pc = "sync" -> LookupSync(f, pos, file)
      [] f.pc = "scan" -> LookupScan(f, pos, file)
      [] f.pc = "size" -> LookupSize(f, pos, file)
      [] f.pc = "data" -> LookupData(f, pos, file)
      [] f.pc = "sum"  -> LookupSum(f, pos, file)

LookupEnter(offset) == [LkIdle EXCEPT !.pc = "seek", !.arg = offset, !.offset = offset]

\* Offsets at or after which the log may hold a chunk: its start, one inside
\* its first bytes, and where each Append began.
ChunkOffsets == {0, 1} \cup {hist[i].off : i \in 1..Len(hist)}

\* Offsets a caller passes: those, a negative one, and the end of the file
\* and beyond.
Offsets == {0 - 1, Len(log), Len(log) + 1} \cup ChunkOffsets

LookupBegin(offset) ==
    /\ lk.pc = "idle"
    /\ cl.pc = "open"
    /\ lk' = LookupEnter(offset)
    /\ UNCHANGED <<log, rpos, app, hist, faults, cl, seen>>

\* Lookup called while no Append runs.
LookupCall(offset) == app.pc = "idle" /\ LookupBegin(offset)

LookupDo ==
    /\ lk.pc \in {"seek", "sync", "scan", "size", "data", "sum"}
    /\ LET s == LookupStep(lk, rpos, log)
       IN  /\ lk' = s.lk
           /\ rpos' = s.pos
    /\ UNCHANGED <<log, app, hist, faults, cl, seen>>

LookupReturn ==
    /\ lk.pc = "done"
    /\ lk' = LkIdle
    /\ UNCHANGED <<log, rpos, app, hist, faults, cl, seen>>

Next ==
    \/ \E b \in Payloads \cup {TooLarge} : AppendCall(b)
    \/ AppendWrite
    \/ AppendWriteFail
    \/ AppendReturn
    \/ \E o \in Offsets : LookupCall(o)
    \/ LookupDo
    \/ LookupReturn

Spec == Init /\ [][Next]_vars

\* ------------------------------------------------------------------ Close

\* What a handle's Close returns: nil or that handle's error.
CloseErrs(h) == {"nil", h}

\* Mutant: the write handle's error comes first.
CloseResultWfileFirst(rerr, werr) == IF werr # "nil" THEN werr ELSE rerr

\* The error Close returns, from the outcomes of the two closes.
CloseResult(rerr, werr) == IF rerr # "nil" THEN rerr ELSE werr

\* err := aof.rfile.Close()
CloseRfile ==
    /\ cl.pc = "open"
    /\ app.pc = "idle"
    /\ lk.pc = "idle"
    /\ \E e \in CloseErrs("ErrRfile") :
          cl' = [cl EXCEPT !.pc = "wfile", !.rerr = e, !.order = Append(@, "rfile")]
    /\ UNCHANGED <<log, rpos, app, lk, hist, faults, seen>>

\* aof.wfile.Close() on either branch, and the return.
CloseWfile ==
    /\ cl.pc = "wfile"
    /\ \E e \in CloseErrs("ErrWfile") :
          cl' = [cl EXCEPT !.pc = "done", !.werr = e, !.order = Append(@, "wfile"),
                           !.ret = CloseResult(cl.rerr, e)]
    /\ UNCHANGED <<log, rpos, app, lk, hist, faults, seen>>

NextClose ==
    \/ Next
    \/ CloseRfile
    \/ CloseWfile

\* Appends and lookups, ended by a Close.
SpecClose == Init /\ [][NextClose]_vars

\* ------------------------------------------- one writer and one reader

\* Every Append so far was completed.
AllOk(h) == \A j \in 1..Len(h) : h[j].st = "ok"

\* The offset a replay has reached: the end of the log, or, with an Append
\* under way, where that Append began.
ReplayOffsets ==
    {IF app.pc = "idle" \/ hist = <<>> THEN Len(log) ELSE hist[Len(hist)].off}

\* Append on wfile and Lookup on rfile run side by side: either may be
\* called while the other is between two of its steps.  The writer appends
\* as long as its appends succeed.
NextConc ==
    \/ \E b \in Payloads \cup {TooLarge} : AllOk(hist) /\ AppendBegin(b)
    \/ AppendWrite
    \/ AppendWriteFail
    \/ AppendReturn
    \/ \E o \in ReplayOffsets : LookupBegin(o)
    \/ LookupDo
    \/ LookupReturn

SpecConc == Init /\ [][NextConc]_vars

\* ------------------------------------------------------------- a replay

\* The caller keeps the chunk a Lookup has just returned, with the offset it
\* asked for and the length of the log at that time, to compare with what
\* the same Lookup returns later.
Keep ==
    /\ lk.pc = "done"
    /\ lk.ret.err = "nil"
    /\ seen = NoneSeen
    /\ seen' = [arg |-> lk.arg, ret |-> lk.ret, len |-> Len(log)]
    /\ UNCHANGED <<log, rpos, app, lk, hist, faults, cl>>

\* The payloads appended are the cookie bytes, so that the lookups meet
\* cookies inside payloads, and one over the limit.
NextReplay ==
    \/ \E b \in {Cookie, TooLarge} : AppendCall(b)
    \/ AppendWrite
    \/ AppendWriteFail
    \/ AppendReturn
    \/ \E o \in ChunkOffsets : LookupCall(o)
    \/ LookupDo
    \/ LookupReturn
    \/ Keep

\* Appends and lookups, with one result of a Lookup kept by the caller.
SpecReplay == Init /\ [][NextReplay]_vars

\* ------------------------------------------------- a file found at start-up

\* NewAOF opens the file without truncating it, so Lookup may meet whatever
\* earlier runs and the environment left there.  Such a file is built from
\* pieces: whole chunks, chunks cut short by a crash, and chunks one byte of
\* whose stored checksum was overwritten.

\* A payload that is itself an encoded chunk.
Nested == Chunk(<<>>)

ScanPayloads == Payloads \cup {Nested}

\* Lengths at which a chunk is cut: after the cookie, inside the length
\* field, inside the payload.
TornAt == {4, 5, 7}

\* Index within the checksum and value of the overwritten byte.
CorruptIdx == {0, 3}

CorruptVals == {0}

\* f.Seek(at, 0); f.Write([]byte{v}) on a second handle.
Overwrite(file, at, v) == [file EXCEPT ![at + 1] = v]

ScanPieces ==
    {[bytes |-> Chunk(b), b |-> b, st |-> "ok"] : b \in ScanPayloads}
    \cup {[bytes |-> SubSeq(Chunk(Cookie), 1, t), b |-> Cookie, st |-> "torn"] :
             t \in TornAt}
    \cup {[bytes |-> Overwrite(Chunk(b), 6 + Len(b) + i, v), b |-> b, st |-> "bad"] :
             b \in ScanPayloads, i \in CorruptIdx, v \in CorruptVals}

RECURSIVE Build(_)
Build(ps) == IF ps = <<>> THEN <<>> ELSE Head(ps).bytes \o Build(Tail(ps))

RECURSIVE BuildHist(_, _)
BuildHist(ps, off) ==
    IF ps = <<>> THEN <<>>
    ELSE <<[off |-> off, b |-> Head(ps).b, st |-> Head(ps).st]>>
         \o BuildHist(Tail(ps), off + Len(Head(ps).bytes))

PieceSeqs == UNION {[1..n -> ScanPieces] : n \in 0..MaxPieces}

InitScan ==
    /\ \E ps \in PieceSeqs :
          /\ log = Build(ps)
          /\ hist = BuildHist(ps, 0)
    /\ rpos = 0
    /\ app = AppIdle
    /\ lk = LkIdle
    /\ faults = 0
    /\ cl = ClOpen
    /\ seen = NoneSeen

NextScan ==
    \/ \E o \in Offsets : LookupCall(o)
    \/ LookupDo
    \/ LookupReturn

\* Lookup on the files found at start-up, nothing appended.
SpecScan == InitScan /\ [][NextScan]_vars

\* ------------------------------------------------------------- properties

\* Whether file has all of the bytes [p, p + n).
Has(file, p, n) == p >= 0 /\ p + n <= Len(file)

Bytes(file, p, n) == SubSeq(file, p + 1, p + n)

\* The length field of a chunk starting at p.
LenAt(file, p) == file[p + 5] * 256 + file[p + 6]

\* A valid chunk starts at p: cookie, length <= 1024, the whole payload, and
\* a stored checksum equal to the CRC-32 of the bytes before it.
ValidAt(file, p) ==
    /\ Has(file, p, 6)
    /\ Bytes(file, p, 4) = <<36, 113, 98, 150>>
    /\ LenAt(file, p) <= 1024
    /\ Has(file, p, 10 + LenAt(file, p))
    /\ Bytes(file, p + 6 + LenAt(file, p), 4)
         = encodeU32(HashWrite(NewIEEE, Bytes(file, p, 6 + LenAt(file, p))))

\* The sum of 10 + len(bj) over the first i records of the history.
RECURSIVE SumTo(_, _)
SumTo(h, i) == IF i = 0 THEN 0 ELSE SumTo(h, i - 1) + 10 + Len(h[i].b)

Done == lk.pc = "done"

Ret(b, next) == [b |-> b, next |-> next, err |-> "nil"]

\* C1: on a log that was empty before one successful Append(b), Lookup(0)
\* returns b and the next offset 10 + len(b), with no error.
C1_RoundTrip ==
    (Done /\ lk.arg = 0 /\ Len(hist) = 1 /\ hist[1].st = "ok")
        => lk.ret = Ret(hist[1].b, 10 + Len(hist[1].b))

C1_Witness ==
    /\ Done /\ lk.arg = 0 /\ Len(hist) = 1 /\ hist[1].st = "ok"
    /\ lk.ret.b = Cookie

\* C2: after successful appends b1..bn to an empty log, the lookups chained
\* from 0 return b1..bn in order: the i-th, called with the sum of
\* 10 + len(bj) over j < i, returns bi and that sum over j <= i.
C2_Chaining ==
    (Done /\ AllOk(hist))
        => \A i \in 1..Len(hist) :
              lk.arg = SumTo(hist, i - 1)
                  => lk.ret = Ret(hist[i].b, SumTo(hist, i))

C2_Witness ==
    /\ Done /\ AllOk(hist) /\ Len(hist) = 2
    /\ lk.arg = SumTo(hist, 1)
    /\ hist[1].b = Cookie /\ hist[2].b = Cookie
    /\ lk.ret.next = 28

\* The position of the chunk a successful Lookup returned.
RetAt == lk.ret.next - 10 - Len(lk.ret.b)

\* C3: whenever Lookup(offset) returns without error there is a position
\* p >= offset where a valid chunk starts (cookie, length L <= 1024, stored
\* checksum equal to the CRC-32 of the bytes before it), the payload returned
\* is the L bytes at [p + 6, p + 6 + L) and the next offset is p + 10 + L.
C3_ReturnsValidChunk ==
    (Done /\ lk.ret.err = "nil")
        => /\ RetAt >= lk.arg
           /\ ValidAt(log, RetAt)
           /\ LenAt(log, RetAt) = Len(lk.ret.b)
           /\ lk.ret.b = Bytes(log, RetAt + 6, LenAt(log, RetAt))
           /\ lk.ret.next = RetAt + 10 + LenAt(log, RetAt)

\* A chunk returned from behind a chunk with a damaged checksum.
C3_Witness ==
    /\ Done /\ lk.ret.err = "nil" /\ lk.arg = 0
    /\ Len(hist) = 2 /\ hist[1].st = "bad" /\ hist[1].b = <<>>
    /\ RetAt = hist[2].off

\* C4: Lookup(offset) returns EndOfStream only if no valid chunk starts at
\* any position >= offset: whenever one does, whatever precedes it, Lookup
\* returns a chunk.
C4_EndOfStreamOnlyIfNoChunk ==
    (Done /\ lk.arg >= 0 /\ lk.ret.err = "EOF")
        => ~ \E p \in lk.arg..Len(log) : ValidAt(log, p)

\* C5: with the log made of the first t bytes (0 < t < 10 + len(b1)) of the
\* chunk of b1, left by a torn Append, and a complete Append(b2) after it,
\* Lookup(0) returns b2 and the next offset t + 10 + len(b2).
C5_TornWriteTolerance ==
    (/\ Done /\ lk.arg = 0
     /\ Len(hist) = 2 /\ hist[1].st = "torn" /\ hist[2].st = "ok"
     /\ hist[2].off > 0)
        => lk.ret = Ret(hist[2].b, hist[2].off + 10 + Len(hist[2].b))

\* C6: with n >= 2 chunks in the log and one byte of the first chunk's stored
\* checksum changed, Lookup(0) returns the second chunk's payload and the
\* offset of its end, and the lookups chained from there return the third
\* and later payloads in order.
C6_ChecksumCorruptionSkip ==
    (/\ Done
     /\ Len(hist) >= 2 /\ hist[1].st = "bad"
     /\ \A j \in 2..Len(hist) : hist[j].st = "ok")
        => /\ lk.arg = 0 => lk.ret = Ret(hist[2].b, SumTo(hist, 2))
           /\ \A i \in 3..Len(hist) :
                 lk.arg = SumTo(hist, i - 1)
                     => lk.ret = Ret(hist[i].b, SumTo(hist, i))

\* A chunk with a damaged checksum, then intact chunks; Lookup(0) has returned.
C6_Witness ==
    /\ Done /\ lk.arg = 0
    /\ Len(hist) = 2 /\ hist[1].st = "bad" /\ hist[2].st = "ok"

IsPrefix(s, t) == Len(s) <= Len(t) /\ s = SubSeq(t, 1, Len(s))

Writing == app.pc \in {"cookie", "size", "data", "sum"}

\* C7: Append(b) with len(b) > 1024 returns ErrChunkSizeLimitExceeded
\* without a write: the call goes straight to its return, the log is the
\* same after it as before, and no write is ever made for such a payload.
C7_SizeLimit ==
    /\ [](Writing => Len(app.b) <= 1024)
    /\ [][(app.pc = "idle" /\ app'.pc # "idle" /\ Len(app'.b) > 1024)
              => /\ app'.pc = "done"
                 /\ app'.err = ErrChunkSizeLimitExceeded
                 /\ log' = log]_vars

\* A rejected call on a log that holds a chunk.
C7_Witness ==
    /\ app.pc = "done" /\ app.err = ErrChunkSizeLimitExceeded
    /\ Len(app.b) = 1025
    /\ Len(hist) = 1 /\ hist[1].st = "ok" /\ Len(log) = 14

Active == {"seek", "sync", "scan", "size", "data", "sum"}

\* The steps a call at this stage can still take before it returns or moves
\* its offset on.
Stage(pc) ==
    CASE pc = "seek" -> 6
      [] pc = "sync" -> 5
      [] pc = "scan" -> 4
      [] pc = "size" -> 3
      [] pc = "data" -> 2
      [] pc = "sum"  -> 1
      [] OTHER       -> 0

\* A bound on the steps left to a call: 7 for each position not yet passed,
\* and the stage.
Variant(f, file) ==
    IF f.pc \in Active THEN 7 * (Len(file) + 2 - f.offset) + Stage(f.pc) ELSE 0

\* C8: Lookup(offset) terminates on every file and offset: each step of a
\* call lowers a measure that is never negative, so the call returns within
\* that many steps; and each restart after a failed candidate begins beyond
\* the position of that candidate.
C8_Terminates ==
    [][lk.pc \in Active
          => /\ lk'.pc \in Active \cup {"done"}
             /\ Variant(lk', log') < Variant(lk, log)
             /\ Variant(lk', log') >= 0
             /\ (lk'.pc = "seek" /\ lk.pc # "seek")
                   => (lk.pc \in {"size", "sum"} /\ lk'.offset > lk.offset)]_vars

\* A lookup that restarted (the first chunk's checksum is damaged) and ended.
C8_Witness ==
    /\ Done /\ lk.arg = 0 /\ lk.ret.err = "EOF"
    /\ Len(hist) = 1 /\ hist[1].st = "bad"

\* The big-endian CRC-32 of the bytes [p, p + n) of file.
CrcBytes(file, p, n) == encodeU32(HashWrite(NewIEEE, Bytes(file, p, n)))

\* C9: every step of Append only extends the log; a successful Append(b)
\* writes the 4 cookie bytes, the 2-byte big-endian length, the payload and
\* the 4-byte CRC-32 of the 6 + len(b) bytes before it, in this order,
\* 10 + len(b) bytes in all.
C9_AppendOnlyExtends ==
    [][/\ IsPrefix(log, log')
       /\ (app.pc = "cookie" /\ app'.pc = "size")
             => log' = log \o <<36, 113, 98, 150>>
       /\ (app.pc = "size" /\ app'.pc = "data")
             => log' = log \o <<Len(app.b) \div 256, Len(app.b) % 256>>
       /\ (app.pc = "data" /\ app'.pc = "sum")
             => log' = log \o app.b
       /\ (app.pc = "sum" /\ app'.pc = "done" /\ app'.err = "nil")
             => LET off == hist[Len(hist)].off
                IN  /\ log' = log \o CrcBytes(log, off, 6 + Len(app.b))
                    /\ Len(log') = off + 10 + Len(app.b)
                    /\ Bytes(log', off, 6 + Len(app.b))
                         = <<36, 113, 98, 150, 0, Len(app.b)>> \o app.b]_vars

\* A successful Append of the cookie bytes after a torn one.
C9_Witness ==
    /\ app.pc = "done" /\ app.err = "nil" /\ app.b = Cookie
    /\ Len(hist) = 2 /\ hist[1].st = "torn" /\ hist[2].st = "ok"
    /\ hist[2].off > 0

OneBad == Len(hist) = 1 /\ hist[1].st = "bad"

\* C10 as stated: on a log holding one chunk with one byte of its stored
\* checksum changed and nothing after it, Lookup(0) returns EndOfStream.
C10_InvalidCrcIsEndOfStream ==
    (Done /\ lk.arg = 0 /\ OneBad) => lk.ret.err = "EOF"

\* C10 as amended: on such a log Lookup(0) returns EndOfStream whenever no
\* valid chunk starts at a position >= 1 (a payload may itself hold one);
\* it never returns the damaged chunk and never another error.
C10_InvalidCrcAmended ==
    (Done /\ lk.arg = 0 /\ OneBad)
        => /\ lk.ret.err \in {"EOF", "nil"}
           /\ ~ ValidAt(log, 0)
           /\ lk.ret.err = "nil" => (RetAt >= 1 /\ ValidAt(log, RetAt))
           /\ (~ \E p \in 1..Len(log) : ValidAt(log, p)) => lk.ret.err = "EOF"

\* The damaged chunk's payload is the cookie: EndOfStream.
C10_Witness ==
    /\ Done /\ lk.arg = 0 /\ OneBad
    /\ hist[1].b = Cookie /\ lk.ret.err = "EOF"

\* C11: Close closes the read handle and then the write handle, each once,
\* whatever the outcomes; it returns the read handle's error when that close
\* failed, and the result of closing the write handle otherwise.
C11_CloseBoth ==
    /\ cl.pc = "open" => cl.order = <<>>
    /\ cl.pc = "wfile" => cl.order = <<"rfile">>
    /\ cl.pc = "done"
          => /\ cl.order = <<"rfile", "wfile">>
             /\ cl.rerr # "nil" => cl.ret = cl.rerr
             /\ cl.rerr = "nil" => cl.ret = cl.werr

\* Both closes failed; the read handle's error is the one returned.
C11_Witness ==
    /\ cl.pc = "done" /\ cl.rerr = "ErrRfile" /\ cl.werr = "ErrWfile"
    /\ cl.ret = "ErrRfile" /\ Len(log) > 0

\* The log a history of complete appends makes: its chunks one after another.
RECURSIVE ChunksOf(_, _)
ChunksOf(h, i) == IF i = 0 THEN <<>> ELSE ChunksOf(h, i - 1) \o Chunk(h[i].b)

\* The last Append began at offset o, after complete appends only.
LastAt(o) ==
    /\ Len(hist) >= 1 /\ hist[Len(hist)].off = o
    /\ \A j \in 1..(Len(hist) - 1) : hist[j].st = "ok"

\* C12: a Lookup(o) whose steps interleave with the writes of the one Append
\* in progress at o, the end of a log of complete chunks, returns that
\* Append's payload with o + 10 + len(b), or EndOfStream, and nothing else;
\* no step of Lookup changes the log or the Append's frame, so complete
\* appends leave exactly their chunks.
C12_ReaderDuringAppend ==
    /\ []((Done /\ LastAt(lk.arg))
             => \/ lk.ret = Ret(hist[Len(hist)].b,
                                lk.arg + 10 + Len(hist[Len(hist)].b))
                \/ lk.ret = [b |-> <<>>, next |-> 0, err |-> "EOF"])
    /\ []((app.pc \in {"idle", "done"} /\ AllOk(hist))
             => log = ChunksOf(hist, Len(hist)))
    /\ [][lk' # lk => (log' = log /\ app' = app /\ hist' = hist)]_vars

\* A Lookup that ran alongside the second Append has returned its payload,
\* before that Append itself has returned.
C12_Witness ==
    /\ Done /\ LastAt(lk.arg) /\ lk.arg = 14
    /\ lk.ret = Ret(Cookie, 28)
    /\ app.pc = "done" /\ app.err = "nil"

\* Where the field written at pc begins within the chunk of b, and its length.
FieldStart(pc, b) ==
    CASE pc = "cookie" -> 0
      [] pc = "size"   -> 4
      [] pc = "data"   -> 6
      [] pc = "sum"    -> 6 + Len(b)

FieldLen(pc, b) ==
    CASE pc = "cookie" -> 4
      [] pc = "size"   -> 2
      [] pc = "data"   -> Len(b)
      [] pc = "sum"    -> 4

\* The bytes of the log from offset off to its end.
TailFrom(file, off) == SubSeq(file, off + 1, Len(file))

\* C13: when the k-th write of Append fails the call ends with that write's
\* error at once; the log has gained the fields before the k-th and the part
\* of the k-th that was put down, and keeps them (nothing more is written
\* and nothing is taken back); the next Append begins at the end of that
\* tail and puts its cookie there.
C13_FailedWriteLeavesTornTail ==
    /\ [][faults' # faults
            => LET off  == hist[Len(hist)].off
                   tail == TailFrom(log', off)
               IN  /\ app'.pc = "done" /\ app'.err = "EIO"
                   /\ IsPrefix(log, log')
                   /\ IsPrefix(tail, Chunk(app.b))
                   /\ Len(tail) >= FieldStart(app.pc, app.b)
                   /\ Len(tail) <= FieldStart(app.pc, app.b) + FieldLen(app.pc, app.b)
                   /\ Len(tail) < 10 + Len(app.b)]_vars
    /\ [][app.pc = "done" => log' = log]_vars
    /\ [][(app.pc = "idle" /\ app'.pc = "cookie")
            => hist'[Len(hist')].off = Len(log)]_vars
    /\ [][(app.pc = "cookie" /\ app'.pc = "size")
            => (Len(log) = hist[Len(hist)].off /\ log' = log \o Cookie)]_vars

\* The first Append failed inside its payload; the next one has put its
\* cookie right after the torn tail.
C13_Witness ==
    /\ Len(hist) = 2 /\ hist[1].st = "torn" /\ hist[1].b = Cookie
    /\ hist[2].off = 8 /\ app.pc = "size" /\ Len(log) = 12

\* C14: the chunk a Lookup(offset) returns is the first valid one: no valid
\* chunk starts at a position from offset up to where the returned one starts.
C14_ReturnsFirstValidChunk ==
    (Done /\ lk.ret.err = "nil" /\ lk.arg >= 0)
        => \A q \in lk.arg..(RetAt - 1) : ~ ValidAt(log, q)

\* The first chunk's checksum is damaged and its payload is itself a chunk:
\* the chunk returned is the one inside the payload, not the chunk after.
C14_Witness ==
    /\ Done /\ lk.ret.err = "nil" /\ lk.arg = 0
    /\ Len(hist) = 2 /\ hist[1].st = "bad" /\ hist[1].b = Nested
    /\ hist[2].st = "ok" /\ RetAt = 6

\* C15: a candidate whose cookie was matched at p is given up for a length
\* above 1024 or for a checksum mismatch, and then the search starts again
\* with the read position at exactly p + 1; for a length above 1024 the two
\* bytes of the length are the last bytes read of that candidate.
C15_RestartAtNextByte ==
    /\ [][(lk.pc = "size" /\ lk'.pc = "seek")
            => /\ Bytes(log, lk.offset, 4) = Cookie
               /\ lk'.size > 1024
               /\ lk'.offset = lk.offset + 1
               /\ rpos = lk.offset + 4 /\ rpos' = lk.offset + 6]_vars
    /\ [][(lk.pc = "sum" /\ lk'.pc = "seek")
            => /\ Bytes(log, lk.offset, 4) = Cookie
               /\ LenAt(log, lk.offset) <= 1024
               /\ ~ ValidAt(log, lk.offset)
               /\ lk'.offset = lk.offset + 1]_vars
    /\ [][(lk.pc \in {"sync", "scan", "data"}) => lk'.pc # "seek"]_vars
    /\ [][(lk.pc = "seek" /\ lk'.pc = "sync") => rpos' = lk.offset]_vars

\* The cookie at 0 is followed by a length of 9329 (the start of the next
\* cookie): the search is about to start again at 1.
C15_Witness ==
    /\ lk.pc = "seek" /\ lk.arg = 0 /\ lk.offset = 1
    /\ lk.size = 9329 /\ rpos = 6

\* The four bytes of file at q are the cookie.
CookieAt(file, q) == Has(file, q, 4) /\ Bytes(file, q, 4) = Cookie

\* Where the scan in progress began: sp single-byte reads ago.
ScanStart == lk.offset - lk.sp

\* C16: during the scan for the cookie begun at s, after k single-byte reads
\* the window taken in circular order from index sp mod 4 holds the bytes
\* [s + k, s + k + 4) of the log and the offset is s + k; so the scan stops at
\* the first position from s on whose four bytes are the cookie, whatever its
\* alignment, and ends in EndOfStream when there is none.
C16_SlidingWindow ==
    /\ [](lk.pc = "scan"
             => /\ lk.sp >= 0 /\ ScanStart >= lk.arg
                /\ Has(log, lk.offset, 4) /\ rpos = lk.offset + 4
                /\ \A i \in 0..3 : lk.sync[(lk.sp + i) % 4] = log[lk.offset + i + 1])
    /\ [][(lk.pc = "sync" /\ lk'.pc = "scan")
            => (lk'.sp = 0 /\ lk'.offset = lk.offset /\ rpos = lk.offset)]_vars
    /\ [][(lk.pc = "scan" /\ lk'.pc = "scan")
            => (lk'.sp = lk.sp + 1 /\ lk'.offset = lk.offset + 1)]_vars
    /\ [][(lk.pc = "scan" /\ lk'.pc = "size")
            => (lk'.sp = lk.sp /\ lk'.offset = lk.offset)]_vars
    /\ [](lk.pc = "size"
             => /\ CookieAt(log, lk.offset)
                /\ \A q \in ScanStart..(lk.offset - 1) : ~ CookieAt(log, q))
    /\ [][(lk.pc \in {"sync", "scan"} /\ lk'.pc = "done")
            => /\ lk'.ret = [b |-> <<>>, next |-> 0, err |-> "EOF"]
               /\ \A q \in (IF lk.pc = "sync" THEN lk.offset ELSE ScanStart)..Len(log) :
                     ~ CookieAt(log, q)]_vars

\* The scan has stopped on a cookie that is not a multiple of four bytes
\* from where it began.
C16_Witness ==
    /\ lk.pc = "size" /\ lk.sp % 4 = 1 /\ lk.sp > 4
    /\ ScanStart = lk.arg /\ CookieAt(log, lk.offset)

\* C17: the next offset a successful Lookup(offset), offset >= 0, returns is
\* at least offset + 10 and at most the length of the log, so a replay that
\* chains the offsets moves on by 10 or more each time and ends.
C17_NextOffsetAdvances ==
    (Done /\ lk.ret.err = "nil" /\ lk.arg >= 0)
        => /\ lk.ret.next >= lk.arg + 10
           /\ lk.ret.next <= Len(log)

\* The last chunk of the log returned to a Lookup called inside the chunk
\* before it: the next offset is the length of the log.
C17_Witness ==
    /\ Done /\ lk.ret.err = "nil" /\ lk.arg = 1
    /\ Len(hist) = 2 /\ RetAt = hist[2].off
    /\ lk.ret.next = Len(log)

\* C18: once a Lookup(o) has returned a chunk, every later Lookup(o) returns
\* the same payload and next offset, whatever appends (complete, rejected
\* for their size or failed part-way) were made in between.
C18_ResultsAreStable ==
    (Done /\ seen # NoneSeen /\ lk.arg = seen.arg) => lk.ret = seen.ret

\* Lookup(0) has returned again after an Append that failed part-way was
\* made since its result was kept.
C18_Witness ==
    /\ Done /\ seen # NoneSeen /\ lk.arg = seen.arg /\ lk.arg = 0
    /\ Len(hist) = 2 /\ hist[2].st = "torn"
    /\ seen.len = hist[2].off /\ Len(log) > seen.len

\* What Lookup(offset) returns on file when rfile is at pos as it is called:
\* its steps run to the return.
RECURSIVE LookupRun(_, _, _)
LookupRun(f, pos, file) ==
    IF f.pc = "done" THEN f.ret
    ELSE LET s == LookupStep(f, pos, file)
         IN  LookupRun(s.lk, s.pos, file)

\* The result on a handle no Lookup has used yet.
FreshLookup(file, offset) == LookupRun(LookupEnter(offset), 0, file)

\* C19: no step of Lookup changes the log, the Append frame or where the
\* next write goes; and whatever lookups ran before it on the same log, a
\* Lookup(o) returns what it returns on a handle never used before.
C19_LookupKeepsNoState ==
    /\ [](Done => lk.ret = FreshLookup(log, lk.arg))
    /\ [][lk' # lk => (log' = log /\ app' = app /\ hist' = hist /\ cl' = cl)]_vars

\* Lookup(0) has returned the first chunk after a Lookup at the start of the
\* second chunk, whose result was kept, had left rfile at the end of the log.
C19_Witness ==
    /\ Done /\ lk.arg = 0 /\ lk.ret.err = "nil"
    /\ Len(hist) = 2 /\ hist[1].st = "ok" /\ hist[2].st = "ok"
    /\ seen # NoneSeen /\ seen.arg = hist[2].off /\ seen.len = Len(log)
    /\ lk.ret.next = hist[2].off

\* C20: on a log of complete chunks and nothing else (none, for an empty
\* log) a Lookup at the length of the log, or beyond it, returns EndOfStream:
\* no payload and no other error.
C20_EndOfLogIsEndOfStream ==
    (Done /\ AllOk(hist) /\ log = ChunksOf(hist, Len(hist)) /\ lk.arg >= Len(log))
        => lk.ret = [b |-> <<>>, next |-> 0, err |-> "EOF"]

\* A Lookup beyond the end of a log of two chunks has returned.
C20_Witness ==
    /\ Done /\ AllOk(hist) /\ Len(hist) = 2 /\ Len(log) = 24
    /\ lk.arg = Len(log) + 1 /\ lk.ret.err = "EOF"

====
